---- MODULE Spec2Model ----
(***************************************************************************)
(* Offline-first synchronisation engine of safe-admission-hub: the Dexie   *)
(* write queue (offline-db), the useOfflineSync hook and its drain, the    *)
(* pending-sync view and the payment form's online validation.             *)
(*                                                                         *)
(* The hook keeps isSyncing and pendingCount in React state, so every      *)
(* component that calls useOfflineSync() owns a private copy.  Two hook    *)
(* instances are mounted at any time: the OfflineIndicator of AppLayout    *)
(* and the page inside the layout.  Each await of the source is a step     *)
(* boundary; a value a closure captured at render time is kept with the    *)
(* pending call.  The repository holds two revisions of the hook in        *)
(* useOfflineSync.ts; version says which one the build uses: Spec is       *)
(* revision 1, SpecRev2 revision 2.                                        *)
(*                                                                         *)
(* SpecForm adds the Payments form as the user filled it (amount text,     *)
(* method), SpecCache is the CacheManager over localStorage with a clock,  *)
(* SpecData the read-through CachedDataService, SpecEdit the payment edit  *)
(* with its audit entry, SpecFifo two queued payments in one drain.        *)
(* SpecRoster runs the queue next to the cached student roster, SpecFee    *)
(* the form under every fee configuration of the grade, and SpecLive is    *)
(* Spec with every await of a running syncAll call settling.               *)
(***************************************************************************)
EXTENDS Integers, Sequences, FiniteSets, TLC

\* ------------------------------------------------------------------ bounds
MaxDrains == 2
MaxSubmits == 2
MaxDirect == 1
MaxLen == 2
MaxTicks == 2
MaxFetches == 2
MaxEdits == 2

\* ------------------------------------------------------- program constants
Hooks == {"indicator", "page"}
Routes == {"admissions", "payments", "pending-sync"}

AdmissionIds == {"a1"}
StudentIds == {"s1"}
PaymentIds == {"p1", "p2"}
Items == AdmissionIds \cup StudentIds \cup PaymentIds

\* the student the payments are for: admitted in Term 1 of the current year
StudentAdmissionOrder == 1
\* fee_amount / fee_per_term of the student's grade, in units
Fee == 2
Terms == {1, 2}
NoRef == "null"
Refs == {"ab", "AB"}

\* payment payloads of the engine specification and of the payment one
PlainInputs == {[ref |-> NoRef, term |-> 1, amount |-> 2]}
PaymentInputs == [ref : Refs \cup {NoRef}, term : Terms, amount : {Fee}]
NoInput == [ref |-> NoRef, term |-> 0, amount |-> 0]

Drains == 1..MaxDrains

VARIABLES
  version,        \* 1: useOfflineSync.ts lines 1-293, 2: lines 295-493
  navigatorOnLine,\* navigator.onLine
  route,          \* the page mounted inside AppLayout
  syncStatus,     \* offlineDb row of each localId: none (never added),
                  \* pending, synced, failed, removed (deleted)
  syncedId,       \* row.syncedId is set
  errorMessage,   \* row.errorMessage is set
  payload,        \* payment rows: reference, term, amount
  isSyncing,      \* useState per hook instance
  pendingCount,   \* useState per hook instance
  enq,            \* addOffline* call in flight on the page: none, or the
                  \* syncAll guard its closure captured (go / blocked)
  dpc,            \* per drain: idle, list, submit, mark, fin
  downer,         \* hook instance whose syncAll is running
  dlive,          \* that instance is still mounted
  listed,         \* items getPendingItems returned to this drain
  todo,           \* the listed items not yet processed, in order
  res,            \* result of the remote insert of Head(todo)
  during,         \* history: the items added to the queue since this
                  \* syncAll call began, each with where the call was:
                  \* awaiting its list, or in its loops
  submits,        \* remote rows created from each queue item
  remoteRefs,     \* references stored in remote payments
  paid,           \* remote payments of the student per term (sum)
  directs,        \* number of payments written by the online form
  payments,       \* Payments page state: paid per term as last fetched
  view,           \* PendingSync page state: localIds shown with a delete button
  slots,          \* number of syncAll calls that can be in flight at once
  gradeTerms,     \* Payments page state: fee_amount of the student's grade
                  \* per term of the year, where a grade_terms row exists
  grades,         \* Payments page state: fee_per_term of the student's
                  \* grade, when the grade is among the loaded grades
  last,           \* "session" right after a session start, "list" right
                  \* after getPendingItems returned, else "step"
  formData,       \* Payments page form: amount text, method, reference, term
  toast,          \* the message the last form handler showed
  localStorage,   \* CacheManager entries by key (without the prefix)
  now,            \* Date.now() in milliseconds
  ticks,          \* number of clock advances so far
  call,           \* the last cache or data-service call and what it returned
  svc,            \* per reference dataset: read-through call idle or fetching
  fetches,        \* remote fetches issued by the data service
  payment,        \* the remote payment row shown on the Payments page
  editingPayment, \* Payments page state: the edit dialog is open on the row
  auditLogs       \* rows of audit_logs written for the payment

vars == <<version, gradeTerms, grades, navigatorOnLine, route, syncStatus, syncedId, errorMessage,
          payload, isSyncing, pendingCount, enq, dpc, downer, dlive, listed, todo,
          res, during, submits, remoteRefs, paid, directs, payments, view, slots, last,
          formData, toast, localStorage, now, ticks, call, svc, fetches,
          payment, editingPayment, auditLogs>>

\* ---------------------------------------------------------------- helpers
user == TRUE

isOnline == navigatorOnLine

isOffline == ~navigatorOnLine

Kind(x) == IF x \in AdmissionIds THEN "admission"
           ELSE IF x \in StudentIds THEN "student" ELSE "payment"

\* primary key order of the rows (++id): a1, s1, p1, p2
Pk(x) == CASE x = "a1" -> 1 [] x = "s1" -> 2 [] x = "p1" -> 3 [] x = "p2" -> 4

Lower(r) == IF r = "AB" THEN "ab" ELSE r

RECURSIVE SortByPk_desc(_)
\* the rows of S, latest added first
SortByPk_desc(S) ==
  IF S = {} THEN <<>>
  ELSE LET x == CHOOSE y \in S : \A z \in S : Pk(y) >= Pk(z)
       IN <<x>> \o SortByPk_desc(S \ {x})

RECURSIVE SortByPk(_)
\* the rows of S as toArray returns them: by primary key, the order of adding
SortByPk(S) ==
  IF S = {} THEN <<>>
  ELSE LET x == CHOOSE y \in S : \A z \in S : Pk(y) <= Pk(z)
       IN <<x>> \o SortByPk(S \ {x})

Stored(x) == syncStatus[x] \in {"pending", "synced", "failed"}

PendingOf(ids) == {x \in ids : syncStatus[x] = "pending"}

getPendingSyncCount ==
  Cardinality(PendingOf(AdmissionIds)) + Cardinality(PendingOf(StudentIds))
    + Cardinality(PendingOf(PaymentIds))

\* a listing that also returns the Failed rows
getPendingItems_withFailed ==
  LET Open(ids) == {x \in ids : syncStatus[x] \in {"pending", "failed"}}
  IN (IF version = 1 THEN SortByPk(Open(AdmissionIds)) ELSE <<>>)
       \o SortByPk(Open(StudentIds)) \o SortByPk(Open(PaymentIds))

\* a listing that hands the payments over first and the admissions last
getPendingItems_paymentsFirst ==
  SortByPk(PendingOf(PaymentIds)) \o SortByPk(PendingOf(StudentIds))
    \o (IF version = 1 THEN SortByPk(PendingOf(AdmissionIds)) ELSE <<>>)

\* the three arrays of getPendingItems, in the order syncAll walks them
getPendingItems ==
  (IF version = 1 THEN SortByPk(PendingOf(AdmissionIds)) ELSE <<>>)
    \o SortByPk(PendingOf(StudentIds)) \o SortByPk(PendingOf(PaymentIds))

ActiveDrains == {d \in Drains : dpc[d] # "idle"}

FreeDrains == (1..slots) \ ActiveDrains

RECURSIVE PickFree(_, _)
\* assigns the lowest idle drain slots to the hook instances of H
PickFree(H, F) ==
  IF H = {} THEN [h \in {} |-> 0]
  ELSE LET h == CHOOSE g \in H : TRUE
           d == CHOOSE e \in F : \A f \in F : e <= f
       IN [g \in {h} |-> d] @@ PickFree(H \ {h}, F \ {d})

Range(q) == {q[i] : i \in 1..Len(q)}

Min(a, b) == IF a < b THEN a ELSE b

\* totals are only ever compared with the fee, so they saturate there
CapAdd(a, b) == Min(a + b, Fee)

ZeroPaid == [t \in Terms |-> 0]

\* rows of the PendingSync page that render a delete button
Deletable == {x \in Items : Stored(x) /\ syncStatus[x] # "synced"}

\* mount effects of the page of route r: loadPendingItems / fetchData
MountView(r) == IF r = "pending-sync" THEN Deletable ELSE {}

MountPayments(r) == IF r = "payments" THEN paid ELSE ZeroPaid


\* ------------------------------------------------------------ CacheManager
DEFAULT_TTL == 86400000

ESSENTIAL_CACHES == {"students_all", "grades_all", "grade_terms_all"}

\* datasets of the read-through service, by cache key
ReferenceKeys == {"students_all", "grades_all"}

CacheKeys == {"students_all", "user_profile"}

\* JavaScript null
Null == "null"

\* rows a fetch returns
JsonValues == {"listA", "listB"}

\* values handed to setCache: a list of rows and the number NaN
Values == {"listA", "NaN"}

\* options argument: each field is <<>> when not given
CacheOptions == [ttl : {<<>>, <<0>>, <<1>>, <<-1>>},
                 essential : {<<>>, <<TRUE>>, <<FALSE>>}]

NoOptions == [ttl |-> <<>>, essential |-> <<>>]

\* JSON.parse(JSON.stringify(v)): NaN is written as null
JsonRoundTrip(v) == IF v = "NaN" THEN Null ELSE v

EmptyStore == [k \in {} |-> Null]

\* an entry that is never taken as expired
isExpired_never(entry, t) == FALSE

\* "age > cacheEntry.ttl"
isExpired(entry, t) == t - entry.timestamp > entry.ttl

\* a call: its arguments, what it returned or threw, entries it removed
NoCall == [op |-> "none", key |-> "none", data |-> Null, ttl |-> <<>>,
           result |-> Null, threw |-> FALSE, removed |-> 0]

Returned(op, key, v, err, n) ==
  [NoCall EXCEPT !.op = op, !.key = key, !.result = v, !.threw = err,
                 !.removed = n]

\* number of entries a getCache of key removes
Evicts(store, key, t) ==
  IF key \in DOMAIN store /\ isExpired(store[key], t) THEN 1 ELSE 0

Remove(store, K) == [k \in (DOMAIN store) \ K |-> store[k]]

Put(store, key, entry) ==
  [k \in (DOMAIN store) \cup {key} |-> IF k = key THEN entry ELSE store[k]]

\* the entry setCache builds
CacheEntry(key, data, options, t) ==
  [data |-> JsonRoundTrip(data),
   timestamp |-> t,
   ttl |-> IF options.ttl = <<>> \/ options.ttl[1] = 0 THEN DEFAULT_TTL
           ELSE options.ttl[1],
   essential |-> options.essential # <<FALSE>> /\ key \in ESSENTIAL_CACHES]

\* what getCache returns and the store it leaves behind
getCacheResult(store, key, t) ==
  IF key \notin DOMAIN store THEN Null
  ELSE IF isExpired(store[key], t) THEN Null
  ELSE store[key].data

getCacheStore(store, key, t) ==
  IF key \in DOMAIN store /\ isExpired(store[key], t) THEN Remove(store, {key})
  ELSE store

\* a clearing that takes every entry
keysToRemove_all(store) == DOMAIN store

\* keysToRemove of clearNonEssentialCaches
keysToRemove(store) == {k \in DOMAIN store : ~store[k].essential}

\* no payment row on the page
NoPayment == [amount |-> 0, ref |-> NoRef, term |-> 0, edits |-> 0]

\* a completed payment as the Payments page lists it, never edited so far
PaymentRows == [amount : 1..Fee, ref : {NoRef, "ab"}, term : Terms,
                edits : {0}]

\* what the audit_logs insert can do: store the row, answer with an error,
\* or reject (network failure)
AuditOutcomes == {"inserted", "error", "rejected"}

\* "if (cached)" of the data service
Truthy(v) == v # Null

\* ------------------------------------------------- Payments page form data
Methods == {"cash", "mpesa", "bank", "mpesa_stk"}

Digits == {"0", "1", "2", "3", "4", "5", "6", "7", "8", "9"}

\* the characters the amount texts of the model are made of
Chars == {"1", "0", ".", "-", ",", "K", "a"}

\* texts of up to MaxLen characters
Texts == UNION {[1..k -> Chars] : k \in 0..MaxLen}

KSh1850 == <<"K", "S", "h", " ", "1", ",", "8", "5", "0", ".", "0", "0">>

Plain1850 == <<"1", "8", "5", "0">>

MinusFive == <<"-", "5">>

Abc == <<"a", "b", "c">>

\* a decimal numeral has a finite double value only up to 309 integer digits
MaxIntegerDigits == 309

\* a numeral of 310 digits
LongNumeral == [i \in 1..(MaxIntegerDigits + 1) |-> "9"]

AmountTexts == Texts \cup {KSh1850, Plain1850, MinusFive, Abc, LongNumeral}

\* String.replace(/[,\sKShksh$...]/g, '') and .replace(/[^0-9.-]/g, '')
CurrencyChars == {",", " ", "K", "S", "h", "k", "s", "$"}

NumberChars == Digits \cup {".", "-"}

Strip(t, C) == SelectSeq(t, LAMBDA c : c \notin C)

Keep(t, C) == SelectSeq(t, LAMBDA c : c \in C)

\* the longest prefix of t whose characters are all in C
PrefixIn(t, C) ==
  LET n == CHOOSE k \in 0..Len(t) :
             /\ \A i \in 1..k : t[i] \in C
             /\ k = Len(t) \/ t[k + 1] \notin C
  IN SubSeq(t, 1, n)

DigitPrefix(t) == PrefixIn(t, Digits)

StripLeadingZeros(t) == SubSeq(t, Len(PrefixIn(t, {"0"})) + 1, Len(t))

StripTrailingZeros(t) ==
  LET n == CHOOSE k \in 0..Len(t) :
             /\ \A i \in (k + 1)..Len(t) : t[i] = "0"
             /\ k = 0 \/ t[k] # "0"
  IN SubSeq(t, 1, n)

\* a number value: NaN, or sign, integer digits and fraction digits without
\* padding zeros, and whether the magnitude is beyond the finite doubles
NaN == [nan |-> TRUE, neg |-> FALSE, int |-> <<>>, frac |-> <<>>, inf |-> FALSE]

\* parseFloat: the longest prefix that is a decimal literal (sign, digits,
\* optional point and digits), NaN when there is none
parseFloat(t) ==
  LET neg == t # <<>> /\ Head(t) = "-"
      r == IF neg THEN Tail(t) ELSE t
      ip == DigitPrefix(r)
      rest == SubSeq(r, Len(ip) + 1, Len(r))
      fp == IF rest # <<>> /\ Head(rest) = "." THEN DigitPrefix(Tail(rest))
                                                ELSE <<>>
  IN IF ip = <<>> /\ fp = <<>> THEN NaN
     ELSE [nan |-> FALSE, neg |-> neg,
           int |-> StripLeadingZeros(ip), frac |-> StripTrailingZeros(fp),
           inf |-> Len(StripLeadingZeros(ip)) > MaxIntegerDigits]

\* numericAmount of handleSubmit and of confirmEdit
numericAmount(text) == parseFloat(Keep(Strip(text, CurrencyChars), NumberChars))

isNaN(v) == v.nan

\* v <= 0
NotPositive(v) == ~v.nan /\ (v.neg \/ (v.int = <<>> /\ v.frac = <<>>))

\* "isNaN(numericAmount) || numericAmount <= 0"
InvalidAmount(v) == isNaN(v) \/ NotPositive(v)

DigitVal(c) ==
  CHOOSE n \in 0..9 :
    <<"0", "1", "2", "3", "4", "5", "6", "7", "8", "9">>[n + 1] = c

\* the amount in whole fee units, saturating at the fee like the totals
Units(v) ==
  IF v.int = <<>> THEN 0
  ELSE IF Len(v.int) > 1 THEN Fee
  ELSE Min(DigitVal(v.int[1]), Fee)

\* formData after resetForm (and of the first render)
resetForm == [amount |-> <<>>, method |-> "cash", ref |-> NoRef, term |-> 1]

\* what the user has typed when the form is submitted
Forms == [amount : AmountTexts, method : Methods, ref : {NoRef, "ab"},
          term : {1}]

\* ------------------------------------------------------------------- Init
InitCfg(versions, n, forms, rows, schedules, flats) ==
  /\ version \in versions
  /\ slots = n
  /\ gradeTerms \in schedules
  /\ grades \in flats
  /\ navigatorOnLine \in BOOLEAN
  /\ route \in Routes
  /\ syncStatus = [x \in Items |-> "none"]
  /\ syncedId = [x \in Items |-> FALSE]
  /\ errorMessage = [x \in Items |-> FALSE]
  /\ payload = [x \in PaymentIds |-> NoInput]
  /\ isSyncing = [h \in Hooks |-> FALSE]
  /\ pendingCount = [h \in Hooks |-> 0]
  /\ enq = "none"
  /\ dpc = [d \in Drains |-> "idle"]
  /\ downer = [d \in Drains |-> "indicator"]
  /\ dlive = [d \in Drains |-> FALSE]
  /\ listed = [d \in Drains |-> {}]
  /\ todo = [d \in Drains |-> <<>>]
  /\ res = [d \in Drains |-> "none"]
  /\ during = [d \in Drains |-> {}]
  /\ submits = [x \in Items |-> 0]
  /\ remoteRefs = {}
  /\ paid = ZeroPaid
  /\ directs = 0
  /\ payments = ZeroPaid
  /\ view = {}
  /\ last = "step"
  /\ formData \in forms
  /\ toast = "none"
  /\ localStorage = EmptyStore
  /\ now = 0
  /\ ticks = 0
  /\ call = NoCall
  /\ svc = [k \in ReferenceKeys |-> "idle"]
  /\ fetches = 0
  /\ payment \in rows
  /\ editingPayment = FALSE
  /\ auditLogs = 0

\* no grade_terms rows, the grade loaded with its fee_per_term
InitAll(versions, n, forms, rows) ==
  InitCfg(versions, n, forms, rows, {[t \in Terms |-> <<>>]}, {<<Fee>>})

InitFrom(versions, n, forms) == InitAll(versions, n, forms, {NoPayment})

InitWith(versions, n) == InitFrom(versions, n, {resetForm})

Init == InitWith({1}, MaxDrains)

queueVars == <<syncStatus, syncedId, errorMessage, payload>>
drainVars == <<dpc, downer, dlive, listed, todo, res, during>>
remoteVars == <<submits, remoteRefs, paid, directs>>
pageVars == <<payments, view>>
cfgVars == <<version, slots, gradeTerms, grades>>
formVars == <<formData, toast>>
cacheVars == <<localStorage, now, ticks, call, svc, fetches>>
editVars == <<payment, editingPayment, auditLogs>>
dataVars == <<cacheVars, editVars>>
\* everything of the sync engine and the payment form
syncVars == <<cfgVars, route, queueVars, isSyncing, pendingCount, enq,
              drainVars, remoteVars, pageVars, last, formData>>

\* ---------------------------------------------------------------- syncAll
\* the guard of syncAll as the closure of hook instance h evaluates it
SyncAllGuard(closureIsSyncing, closureUser) ==
  ~(~isOnline \/ closureIsSyncing \/ ~closureUser)

\* syncAll up to its first await, for every hook instance of H at once:
\* setIsSyncing(true) and the call of getPendingItems is issued
Starts(H) ==
  /\ Cardinality(FreeDrains) >= Cardinality(H)
  /\ LET asg == PickFree(H, FreeDrains)
         New == {asg[h] : h \in H}
         Of(d) == CHOOSE h \in H : asg[h] = d
     IN /\ dpc' = [d \in Drains |-> IF d \in New THEN "list" ELSE dpc[d]]
        /\ downer' = [d \in Drains |-> IF d \in New THEN Of(d) ELSE downer[d]]
        /\ dlive' = [d \in Drains |-> IF d \in New THEN TRUE ELSE dlive[d]]
  /\ isSyncing' = [h \in Hooks |-> IF h \in H THEN TRUE ELSE isSyncing[h]]
  /\ UNCHANGED <<listed, todo, res, during>>

\* OfflineIndicator: the sync button is rendered when online with a
\* positive pendingCount and is disabled while isSyncing
ClickSyncNow ==
  /\ ~isOffline
  /\ pendingCount["indicator"] > 0
  /\ ~isSyncing["indicator"]
  /\ SyncAllGuard(isSyncing["indicator"], user)
  /\ Starts({"indicator"})
  /\ last' = "step"
  /\ UNCHANGED <<cfgVars, dataVars, formVars, navigatorOnLine, route, queueVars, pendingCount,
                 enq, remoteVars, pageVars>>

\* ---------------------------------------------------------------- enqueue
\* the k-th payment added is stored under the k-th localId
EarlierAdded(x) == \A y \in PaymentIds : Pk(y) < Pk(x) => syncStatus[y] # "none"

\* addOffline*: offlineDb.<table>.add with syncStatus 'pending'.  The pages
\* call it from their offline branch; the closure that will call syncAll
\* has the isSyncing and user of the render that created it
AddRow(x) ==
  /\ ~isOnline
  /\ enq = "none"
  /\ syncStatus[x] = "none"
  /\ syncStatus' = [syncStatus EXCEPT ![x] = "pending"]
  /\ enq' = IF ~isSyncing["page"] /\ user THEN "go" ELSE "blocked"
  /\ during' = [d \in Drains |->
                  IF dpc[d] = "idle" THEN during[d]
                  ELSE during[d]
                         \cup {<<x, IF dpc[d] = "list" THEN "list" ELSE "loop">>}]
  /\ last' = "step"
  /\ UNCHANGED <<cfgVars, dataVars, navigatorOnLine, route, syncedId, errorMessage,
                 isSyncing, pendingCount, dpc, downer, dlive, listed, todo, res,
                 remoteVars, pageVars>>

addOfflineAdmission(x) ==
  /\ version = 1
  /\ route = "admissions"
  /\ AddRow(x)
  /\ UNCHANGED <<payload, formVars>>

addOfflineStudent(x) ==
  /\ route = "admissions"
  /\ AddRow(x)
  /\ UNCHANGED <<payload, formVars>>

addOfflinePayment(x, in) ==
  /\ route = "payments"
  /\ EarlierAdded(x)
  /\ AddRow(x)
  /\ payload' = [payload EXCEPT ![x] = in]
  /\ UNCHANGED formVars

\* the rest of addOffline* after its awaits: updatePendingCount, then
\* "if (isOnline()) syncAll()" through the captured closure
addOfflineTail ==
  /\ enq # "none"
  /\ enq' = "none"
  /\ pendingCount' = [pendingCount EXCEPT !["page"] = getPendingSyncCount]
  /\ IF isOnline /\ SyncAllGuard(enq = "blocked", user)
       THEN Starts({"page"})
       ELSE UNCHANGED <<isSyncing, drainVars>>
  /\ last' = "step"
  /\ UNCHANGED <<cfgVars, dataVars, formVars, navigatorOnLine, route, queueVars, remoteVars,
                 pageVars>>

\* ------------------------------------------------------- connectivity
\* window 'online': every mounted hook instance runs its handleOnline.
\* Revision 2 calls syncAll there, through the closure of the render that
\* ran the effect (the mount): isSyncing false, user signed in
handleOnline ==
  /\ ~navigatorOnLine
  /\ navigatorOnLine' = TRUE
  /\ IF version = 2
       THEN Starts(Hooks)
       ELSE UNCHANGED <<isSyncing, drainVars>>
  /\ last' = "step"
  /\ UNCHANGED <<cfgVars, dataVars, formVars, route, queueVars, pendingCount, enq, remoteVars,
                 pageVars>>

handleOffline ==
  /\ navigatorOnLine
  /\ navigatorOnLine' = FALSE
  /\ last' = "step"
  /\ UNCHANGED <<cfgVars, dataVars, formVars, route, queueVars, isSyncing, pendingCount, enq,
                 drainVars, remoteVars, pageVars>>

\* ---------------------------------------------------------- mounting
\* a route change unmounts AppLayout and the page and mounts new ones: new
\* hook state, the mount effect publishes the count; running drains keep
\* running but their setState calls reach no mounted component
Navigate(r) ==
  /\ r # route
  /\ enq = "none"
  /\ route' = r
  /\ isSyncing' = [h \in Hooks |-> FALSE]
  /\ pendingCount' = [h \in Hooks |-> getPendingSyncCount]
  /\ dlive' = [d \in Drains |-> FALSE]
  /\ downer' = [d \in Drains |-> "indicator"]
  /\ view' = MountView(r)
  /\ payments' = MountPayments(r)
  /\ last' = "step"
  /\ UNCHANGED <<cfgVars, dataVars, formVars, navigatorOnLine, queueVars, enq, dpc, listed, todo,
                 res, during, remoteVars>>

\* a new app session after the previous one ended with nothing in flight:
\* everything in memory is fresh, offlineDb persists
SessionStart ==
  /\ ActiveDrains = {}
  /\ enq = "none"
  /\ isSyncing' = [h \in Hooks |-> FALSE]
  /\ pendingCount' = [h \in Hooks |-> getPendingSyncCount]
  /\ view' = MountView(route)
  /\ payments' = MountPayments(route)
  /\ last' = "session"
  /\ UNCHANGED <<cfgVars, dataVars, formVars, navigatorOnLine, route, queueVars, enq, drainVars,
                 remoteVars>>

\* ------------------------------------------------------------------ drain
\* Collection.modify matches the rows whose localId equals x: none when the
\* row was deleted
markSynced(x) ==
  /\ syncStatus' = [syncStatus EXCEPT
                      ![x] = IF Stored(x) THEN "synced" ELSE @]
  /\ syncedId' = [syncedId EXCEPT ![x] = IF Stored(x) THEN TRUE ELSE @]
  /\ UNCHANGED <<errorMessage, payload>>

markFailed(x) ==
  /\ syncStatus' = [syncStatus EXCEPT
                      ![x] = IF Stored(x) THEN "failed" ELSE @]
  /\ errorMessage' = [errorMessage EXCEPT
                        ![x] = IF Stored(x) THEN TRUE ELSE @]
  /\ UNCHANGED <<syncedId, payload>>

\* await getPendingItems(): the three where('syncStatus').equals('pending')
\* queries, or a rejected promise
List(d) ==
  /\ dpc[d] = "list"
  /\ \/ /\ listed' = [listed EXCEPT ![d] = Range(getPendingItems)]
        /\ todo' = [todo EXCEPT ![d] = getPendingItems]
        /\ dpc' = [dpc EXCEPT
                     ![d] = IF getPendingItems = <<>> THEN "fin" ELSE "submit"]
        /\ last' = "list"
     \/ /\ dpc' = [dpc EXCEPT ![d] = "throw"]
        /\ last' = "step"
        /\ UNCHANGED <<listed, todo>>
  /\ UNCHANGED <<cfgVars, dataVars, formVars, navigatorOnLine, route, queueVars, isSyncing,
                 pendingCount, enq, downer, dlive, res, during, remoteVars,
                 pageVars>>

\* the unique index payments_reference_unique_idx
UniqueViolation(ref) == ref # NoRef /\ ref \in remoteRefs

\* the row a successful payments insert adds to the remote table
InsertPayment(in) ==
  /\ remoteRefs' = IF in.ref = NoRef THEN remoteRefs
                   ELSE remoteRefs \cup {in.ref}
  /\ paid' = [paid EXCEPT ![in.term] = CapAdd(@, in.amount)]

\* syncAdmission / syncStudent / syncPayment up to the remote insert of the
\* head item: the insert either returns a row or an error.  The guardian
\* insert that follows a student row has its result ignored
Submit(d) ==
  /\ dpc[d] = "submit"
  /\ LET x == Head(todo[d]) IN
     \/ /\ submits[x] < MaxSubmits
        /\ Kind(x) = "payment" => ~UniqueViolation(payload[x].ref)
        /\ submits' = [submits EXCEPT ![x] = @ + 1]
        /\ IF Kind(x) = "payment" THEN InsertPayment(payload[x])
                                  ELSE UNCHANGED <<remoteRefs, paid>>
        /\ res' = [res EXCEPT ![d] = "ok"]
        /\ last' = "step"
     \/ /\ res' = [res EXCEPT ![d] = "error"]
        /\ last' = "step"
        /\ UNCHANGED <<submits, remoteRefs, paid>>
  /\ dpc' = [dpc EXCEPT ![d] = "mark"]
  /\ UNCHANGED <<cfgVars, dataVars, formVars, navigatorOnLine, route, queueVars, isSyncing,
                 pendingCount, enq, downer, dlive, listed, todo, during,
                 directs, pageVars>>

\* a loop that asks the queue again for what is pending after every item
Advance_requery(d) ==
  LET rest == SelectSeq(getPendingItems, LAMBDA y : y # Head(todo[d]))
  IN /\ todo' = [todo EXCEPT ![d] = rest]
     /\ dpc' = [dpc EXCEPT ![d] = IF rest = <<>> THEN "fin" ELSE "submit"]

\* the loop of syncAll moves on to the next listed item
Advance(d) ==
  /\ todo' = [todo EXCEPT ![d] = Tail(@)]
  /\ dpc' = [dpc EXCEPT ![d] = IF Tail(todo[d]) = <<>> THEN "fin" ELSE "submit"]

\* the status update that ends sync<Kind>: mark*Synced after a row came
\* back, mark*Failed in the catch block (also when mark*Synced rejected);
\* a rejection inside the catch block leaves sync<Kind> and syncAll
Mark(d) ==
  /\ dpc[d] = "mark"
  /\ LET x == Head(todo[d]) IN
     \/ /\ res[d] = "ok"
        /\ markSynced(x)
        /\ Advance(d)
        /\ last' = "step"
     \/ /\ markFailed(x)
        /\ Advance(d)
        /\ last' = "step"
     \/ /\ dpc' = [dpc EXCEPT ![d] = "throw"]
        /\ last' = "step"
        /\ UNCHANGED <<queueVars, todo>>
  /\ res' = [res EXCEPT ![d] = "none"]
  /\ UNCHANGED <<cfgVars, dataVars, formVars, navigatorOnLine, route, isSyncing, pendingCount,
                 enq, downer, dlive, listed, during, remoteVars, pageVars>>

\* a syncAll without the finally block: an exception skips the reset
Finish_noFinally(d) ==
  /\ dpc[d] = "fin"
  /\ pendingCount' = IF dlive[d]
       THEN [pendingCount EXCEPT ![downer[d]] = getPendingSyncCount]
       ELSE pendingCount
  /\ last' = "step"
  /\ isSyncing' = IF dlive[d] THEN [isSyncing EXCEPT ![downer[d]] = FALSE]
                              ELSE isSyncing
  /\ dpc' = [dpc EXCEPT ![d] = "idle"]
  /\ downer' = [downer EXCEPT ![d] = "indicator"]
  /\ dlive' = [dlive EXCEPT ![d] = FALSE]
  /\ listed' = [listed EXCEPT ![d] = {}]
  /\ todo' = [todo EXCEPT ![d] = <<>>]
  /\ during' = [during EXCEPT ![d] = {}]
  /\ UNCHANGED <<cfgVars, dataVars, formVars, navigatorOnLine, route, queueVars, enq, res,
                 remoteVars, pageVars>>

\* the tail of syncAll: updatePendingCount (skipped when an exception is on
\* its way out, or rejected itself), then finally setIsSyncing(false)
Finish(d) ==
  /\ dpc[d] \in {"fin", "throw"}
  /\ \/ /\ dpc[d] = "fin"
        /\ pendingCount' = IF dlive[d]
             THEN [pendingCount EXCEPT ![downer[d]] = getPendingSyncCount]
             ELSE pendingCount
        /\ last' = "step"
     \/ /\ UNCHANGED pendingCount
        /\ last' = "step"
  /\ isSyncing' = IF dlive[d] THEN [isSyncing EXCEPT ![downer[d]] = FALSE]
                              ELSE isSyncing
  /\ dpc' = [dpc EXCEPT ![d] = "idle"]
  /\ downer' = [downer EXCEPT ![d] = "indicator"]
  /\ dlive' = [dlive EXCEPT ![d] = FALSE]
  /\ listed' = [listed EXCEPT ![d] = {}]
  /\ todo' = [todo EXCEPT ![d] = <<>>]
  /\ during' = [during EXCEPT ![d] = {}]
  /\ UNCHANGED <<cfgVars, dataVars, formVars, navigatorOnLine, route, queueVars, enq, res,
                 remoteVars, pageVars>>

\* ------------------------------------------------------ PendingSync page
\* loadPendingItems, on mount and every 5 seconds
loadPendingItems ==
  /\ route = "pending-sync"
  /\ view' = Deletable
  /\ last' = "step"
  /\ UNCHANGED <<cfgVars, dataVars, formVars, navigatorOnLine, route, queueVars, isSyncing,
                 pendingCount, enq, drainVars, remoteVars, payments>>

\* handleDelete<Kind>: the button is rendered from the page state, the
\* delete goes to offlineDb only
handleDelete(x) ==
  /\ route = "pending-sync"
  /\ x \in view
  /\ syncStatus' = [syncStatus EXCEPT ![x] = IF Stored(x) THEN "removed" ELSE @]
  /\ syncedId' = [syncedId EXCEPT ![x] = FALSE]
  /\ errorMessage' = [errorMessage EXCEPT ![x] = FALSE]
  /\ view' = view \ {x}
  /\ last' = "step"
  /\ UNCHANGED <<cfgVars, dataVars, formVars, navigatorOnLine, route, payload, isSyncing,
                 pendingCount, enq, drainVars, remoteVars, payments>>

\* ---------------------------------------------------- Payments page form
\* .ilike('reference', ref).maybeSingle(): a row only when exactly one
\* remote reference matches ignoring case
ExistingReference(ref) ==
  Cardinality({r \in remoteRefs : Lower(r) = Lower(ref)}) = 1

\* a fee lookup that takes a fee that is not configured as zero
fee_orZero(t) ==
  IF gradeTerms[t] # <<>> THEN gradeTerms[t]
  ELSE IF grades # <<>> THEN grades ELSE <<0>>

\* the fee of term t: the grade_terms row when there is one, else the
\* fee_per_term of the grade, else undefined
fee(t) == IF gradeTerms[t] # <<>> THEN gradeTerms[t] ELSE grades

\* the terms from the admission term up to the target that the page's
\* payments state shows as not fully paid
missingTerms(in) ==
  {t \in Terms : /\ StudentAdmissionOrder <= t
                 /\ t < in.term
                 /\ fee(t) # <<>>
                 /\ payments[t] < fee(t)[1]}

\* "if (fee == null)" for one of the terms the loop walks
feeMissing(in) ==
  \E t \in Terms : /\ StudentAdmissionOrder <= t
                   /\ t < in.term
                   /\ fee(t) = <<>>

\* the online validation of handleSubmit, with the lookup answering:
\* reference uniqueness and the term prerequisites
Rejects(in) ==
  \/ in.ref # NoRef /\ ExistingReference(in.ref)
  \/ in.term < StudentAdmissionOrder
  \/ in.term > StudentAdmissionOrder /\ feeMissing(in)
  \/ in.term > StudentAdmissionOrder /\ missingTerms(in) # {}

\* handleSubmit while online: validation, then the insert and fetchData
SubmitOnline(in) ==
  /\ route = "payments"
  /\ isOnline
  /\ directs < MaxDirect
  /\ \/ /\ Rejects(in)
        /\ UNCHANGED <<remoteRefs, paid, directs, payments>>
     \/ /\ ~Rejects(in)
        /\ ~UniqueViolation(in.ref)
        /\ InsertPayment(in)
        /\ directs' = directs + 1
        /\ payments' = paid'
     \/ /\ ~Rejects(in)
        /\ UNCHANGED <<remoteRefs, paid, directs, payments>>
  /\ last' = "step"
  /\ UNCHANGED <<cfgVars, dataVars, navigatorOnLine, route, queueVars, isSyncing,
                 pendingCount, enq, drainVars, submits, view>>

\* the online branch with the form left as it was filled
handleSubmit(in) ==
  /\ SubmitOnline(in)
  /\ UNCHANGED formVars

\* the next localId generateLocalId hands out
FreshPayment(x) ==
  /\ x \in PaymentIds
  /\ syncStatus[x] = "none"
  /\ EarlierAdded(x)

\* a method that is confirmed online
RequiresConnection_never(method) == FALSE

\* "formData.method !== 'cash'" of the offline branch
RequiresConnection(method) == method # "cash"

\* Payments.handleSubmit, the whole handler, on the form as filled: amount
\* parsing, the method checks, then the offline branch (addOfflinePayment of
\* a cash payment, resetForm) or the online one (resetForm once recorded)
Payments_handleSubmit ==
  /\ route = "payments"
  /\ enq = "none"
  /\ LET v == numericAmount(formData.amount)
         in == [ref |-> formData.ref, term |-> formData.term,
                amount |-> Units(v)]
         error ==
           IF InvalidAmount(v) THEN "Enter a valid amount greater than 0"
           ELSE IF formData.method = "mpesa_stk" THEN "available upon v2"
           ELSE IF formData.method \in {"mpesa", "bank"} /\ formData.ref = NoRef
             THEN "Reference is required"
           ELSE IF ~isOnline /\ RequiresConnection(formData.method)
             THEN "require an internet connection"
           ELSE "none"
     IN \/ /\ error # "none"
           /\ toast' = error
           /\ last' = "step"
           /\ UNCHANGED <<cfgVars, dataVars, formData, navigatorOnLine, route, queueVars,
                          isSyncing, pendingCount, enq, drainVars, remoteVars,
                          pageVars>>
        \/ /\ error = "none"
           /\ ~isOnline
           /\ \E x \in PaymentIds :
                /\ FreshPayment(x)
                /\ AddRow(x)
                /\ payload' = [payload EXCEPT ![x] = in]
           /\ formData' = resetForm
           /\ toast' = "Payment saved offline"
        \/ /\ error = "none"
           /\ isOnline
           /\ SubmitOnline(in)
           /\ formData' = IF directs' > directs THEN resetForm ELSE formData
           /\ toast' = IF directs' > directs THEN "Payment recorded"
                                             ELSE "not recorded"

\* ------------------------------------------------------------ CacheManager
\* setCache: the entry is written, or localStorage.setItem throws (quota)
\* and the catch block only logs
setCache(key, data, options) ==
  /\ \/ localStorage' = Put(localStorage, key,
                            CacheEntry(key, data, options, now))
     \/ UNCHANGED localStorage
  /\ call' = [NoCall EXCEPT !.op = "setCache", !.key = key, !.data = data,
                             !.ttl = options.ttl]
  /\ UNCHANGED <<syncVars, navigatorOnLine, toast, now, ticks, svc, fetches,
                 editVars>>

getCache(key) ==
  /\ localStorage' = getCacheStore(localStorage, key, now)
  /\ call' = Returned("getCache", key,
                       getCacheResult(localStorage, key, now), FALSE,
                       Evicts(localStorage, key, now))
  /\ UNCHANGED <<syncVars, navigatorOnLine, toast, now, ticks, svc, fetches,
                 editVars>>

clearNonEssentialCaches ==
  /\ localStorage' = Remove(localStorage, keysToRemove(localStorage))
  /\ call' = Returned("clearNonEssentialCaches", "none", Null, FALSE,
                       Cardinality(keysToRemove(localStorage)))
  /\ UNCHANGED <<syncVars, navigatorOnLine, toast, now, ticks, svc, fetches,
                 editVars>>

clearAllCaches ==
  /\ localStorage' = EmptyStore
  /\ call' = Returned("clearAllCaches", "none", Null, FALSE,
                       Cardinality(DOMAIN localStorage))
  /\ UNCHANGED <<syncVars, navigatorOnLine, toast, now, ticks, svc, fetches,
                 editVars>>

\* time passes
Tick(dt) ==
  /\ ticks < MaxTicks
  /\ ticks' = ticks + 1
  /\ now' = now + dt
  /\ UNCHANGED <<syncVars, navigatorOnLine, toast, localStorage, call, svc,
                 fetches, editVars>>

\* ------------------------------------------------------ CachedDataService
\* getStudents / getGrades up to the remote fetch: the cache check (skipped
\* on forceRefresh), the offline branch, else the fetch is issued
ReadThroughAs(op, store, key, forceRefresh) ==
  /\ svc[key] = "idle"
  /\ LET first == IF forceRefresh THEN Null
                  ELSE getCacheResult(store, key, now)
         store1 == IF forceRefresh THEN store
                   ELSE getCacheStore(store, key, now)
         second == getCacheResult(store1, key, now)
         done(v, err) ==
           /\ call' = Returned(op, key, v, err, Evicts(store, key, now))
           /\ UNCHANGED <<svc, fetches>>
     IN IF Truthy(first)
          THEN localStorage' = store1 /\ done(first, FALSE)
        ELSE IF ~isOnline
          THEN /\ localStorage' = getCacheStore(store1, key, now)
               /\ done(second, ~Truthy(second))
        ELSE /\ fetches < MaxFetches
             /\ localStorage' = store1
             /\ svc' = [svc EXCEPT ![key] = "fetching"]
             /\ fetches' = fetches + 1
             /\ call' = Returned("fetch", key, Null, FALSE,
                                  Evicts(store, key, now))
  /\ UNCHANGED <<syncVars, navigatorOnLine, toast, now, ticks, editVars>>

\* a call of the data service on the cache as it is
ReadThrough(key, forceRefresh) ==
  ReadThroughAs("get", localStorage, key, forceRefresh)

getStudents(forceRefresh) == ReadThrough("students_all", forceRefresh)

getGrades(forceRefresh) == ReadThrough("grades_all", forceRefresh)

\* refreshCache: clearCache of the keys of the data type
refreshCache(store, dataType) ==
  Remove(store, {k \in ReferenceKeys :
                   \/ dataType = "all"
                   \/ dataType = "students" /\ k = "students_all"
                   \/ dataType = "grades" /\ k = "grades_all"})

\* useCacheManager.refreshStudents / refreshGrades: refreshCache, then the
\* forced read-through call up to its fetch
refreshStudents ==
  ReadThroughAs("refresh", refreshCache(localStorage, "students"),
                "students_all", TRUE)

refreshGrades ==
  ReadThroughAs("refresh", refreshCache(localStorage, "grades"),
                "grades_all", TRUE)

\* useCacheManager.refreshAll: refreshCache('all'), then the forced calls
\* side by side; offline the first of them rejects Promise.all
refreshAll ==
  /\ \A k \in ReferenceKeys : svc[k] = "idle"
  /\ localStorage' = refreshCache(localStorage, "all")
  /\ IF ~isOnline
       THEN /\ call' = Returned("refresh", "students_all", Null, TRUE, 0)
            /\ UNCHANGED <<svc, fetches>>
       ELSE /\ fetches + Cardinality(ReferenceKeys) <= MaxFetches
            /\ svc' = [k \in ReferenceKeys |-> "fetching"]
            /\ fetches' = fetches + Cardinality(ReferenceKeys)
            /\ call' = Returned("fetch", "students_all", Null, FALSE, 0)
  /\ UNCHANGED <<syncVars, navigatorOnLine, toast, now, ticks, editVars>>

\* the fetch answers: the rows are cached and returned, or on an error the
\* cached value is returned when there is one, else the error is thrown
FetchDone(key) ==
  /\ svc[key] = "fetching"
  /\ svc' = [svc EXCEPT ![key] = "idle"]
  /\ \/ \E data \in JsonValues :
          /\ \/ localStorage' = Put(localStorage, key,
                                    CacheEntry(key, data, NoOptions, now))
             \/ UNCHANGED localStorage
          /\ call' = Returned("get", key, data, FALSE, 0)
     \/ /\ localStorage' = getCacheStore(localStorage, key, now)
        /\ LET cached == getCacheResult(localStorage, key, now)
           IN call' = Returned("get", key, cached, ~Truthy(cached),
                               Evicts(localStorage, key, now))
  /\ UNCHANGED <<syncVars, navigatorOnLine, toast, now, ticks, fetches,
                 editVars>>

\* window 'online' / 'offline' as the data service sees them
Connectivity ==
  /\ navigatorOnLine' = ~navigatorOnLine
  /\ UNCHANGED <<syncVars, toast, cacheVars, editVars>>

\* ------------------------------------------------------- payment edits
\* the edit button of a payment row: setEditingPayment(payment)
openEdit ==
  /\ route = "payments"
  /\ payment # NoPayment
  /\ ~editingPayment
  /\ editingPayment' = TRUE
  /\ UNCHANGED <<syncVars, navigatorOnLine, toast, cacheVars, payment,
                 auditLogs>>

\* an audit logger that lets a rejected insert out
logImportantEdit_rethrows(outcome) == outcome = "rejected"

\* logImportantEdit throws: the insert is inside try / catch and an error
\* answer is only logged
logImportantEdit_throws(outcome) == FALSE

\* logImportantEdit: the audit_logs insert
logImportantEdit(outcome) ==
  auditLogs' = IF outcome = "inserted" THEN auditLogs + 1 ELSE auditLogs

\* handleEditPayment: the payments update, then the audit entry, then the
\* success toast; any exception ends in the error toast
handleEditPayment(editData) ==
  /\ editingPayment /\ user
  /\ \/ /\ payment.edits < MaxEdits
        /\ payment' = [amount |-> editData.amount, ref |-> editData.ref,
                       term |-> editData.term, edits |-> payment.edits + 1]
        /\ \E outcome \in AuditOutcomes :
             /\ logImportantEdit(outcome)
             /\ toast' = IF logImportantEdit_throws(outcome)
                           THEN "Failed to update payment"
                           ELSE "Payment updated and change logged"
     \/ /\ toast' = "Failed to update payment"
        /\ UNCHANGED <<payment, auditLogs>>

\* EditPaymentDialog.confirmEdit: the amount is parsed as on the payment
\* form, onSave is handleEditPayment, then the dialog closes
confirmEdit(text, ref, term) ==
  /\ route = "payments"
  /\ editingPayment
  /\ LET v == numericAmount(text)
     IN IF InvalidAmount(v)
          THEN /\ toast' = "Enter a valid amount greater than 0"
               /\ UNCHANGED <<payment, editingPayment, auditLogs>>
          ELSE /\ handleEditPayment([amount |-> Units(v), ref |-> ref,
                                     term |-> term])
               /\ editingPayment' = FALSE
  /\ UNCHANGED <<syncVars, navigatorOnLine, cacheVars>>

\* ------------------------------------------------------------------- Next
\* the drain of one syncAll call
Drain(d) == List(d) \/ Submit(d) \/ Mark(d) \/ Finish(d)

\* what every configuration does: connectivity, mounting, the drains
Engine ==
  \/ ClickSyncNow
  \/ addOfflineTail
  \/ handleOnline
  \/ handleOffline
  \/ \E r \in Routes : Navigate(r)
  \/ SessionStart
  \/ \E d \in Drains : Drain(d)

\* one queued payment, concurrent syncAll calls, revision 1 of the hook
Next ==
  \/ Engine
  \/ \E in \in PlainInputs : addOfflinePayment("p1", in)
  \/ loadPendingItems
  \/ \E x \in Items : handleDelete(x)

Spec == Init /\ [][Next]_vars

\* the same where every await of a running syncAll call settles: the
\* promise resolves or rejects and the event loop resumes the call
SpecLive == Init /\ [][Next]_vars /\ \A d \in Drains : WF_vars(Drain(d))

\* the same with revision 2 of the hook
InitRev2 == InitWith({2}, MaxDrains)

SpecRev2 == InitRev2 /\ [][Next]_vars

\* items of several kinds, drained by one syncAll call at a time
InitQueue == InitWith({1}, 1)

NextQueue ==
  \/ Engine
  \/ \E x \in AdmissionIds : addOfflineAdmission(x)
  \/ \E x \in StudentIds : addOfflineStudent(x)
  \/ \E in \in PlainInputs : addOfflinePayment("p1", in)
  \/ loadPendingItems
  \/ \E x \in Items : handleDelete(x)

SpecQueue == InitQueue /\ [][NextQueue]_vars

\* two queued payments and the online form, with references and terms
InitPay == InitWith({1}, 1)

NextPay ==
  \/ Engine
  \/ \E x \in PaymentIds, in \in PaymentInputs : addOfflinePayment(x, in)
  \/ \E in \in PaymentInputs : handleSubmit(in)

SpecPay == InitPay /\ [][NextPay]_vars

\* the payment form as the user filled it, one syncAll call at a time
InitForm == InitFrom({1}, 1, Forms) /\ route = "payments"

NextForm ==
  \/ Payments_handleSubmit
  \/ addOfflineTail
  \/ handleOnline
  \/ handleOffline
  \/ \E d \in Drains : Drain(d)

SpecForm == InitForm /\ [][NextForm]_vars

\* the payment form submitted for any term under every fee configuration
\* of the student's grade
InitFee ==
  /\ InitCfg({1}, 1,
             [amount : {<<"1">>, <<"2">>}, method : {"cash"}, ref : {NoRef},
              term : Terms],
             {NoPayment}, [Terms -> {<<>>, <<1>>}], {<<>>, <<0>>, <<Fee>>})
  /\ route = "payments"

SpecFee == InitFee /\ [][NextForm]_vars

\* the CacheManager interface called with any key, value and options
NextCache ==
  \/ \E key \in CacheKeys, data \in Values, options \in CacheOptions :
       setCache(key, data, options)
  \/ \E key \in CacheKeys : getCache(key)
  \/ clearNonEssentialCaches
  \/ clearAllCaches
  \/ \E dt \in {1, DEFAULT_TTL} : Tick(dt)

InitCache == Init /\ navigatorOnLine /\ route = "payments"

SpecCache == InitCache /\ [][NextCache]_vars

\* the read-through data service over the cache
NextData ==
  \/ \E forceRefresh \in BOOLEAN : getStudents(forceRefresh)
  \/ \E forceRefresh \in BOOLEAN : getGrades(forceRefresh)
  \/ \E key \in ReferenceKeys : FetchDone(key)
  \/ refreshStudents
  \/ refreshGrades
  \/ refreshAll
  \/ clearNonEssentialCaches
  \/ Connectivity
  \/ \E dt \in {1, DEFAULT_TTL} : Tick(dt)

InitData == Init /\ route = "payments"

SpecData == InitData /\ [][NextData]_vars

\* payment edits on the Payments page
InitEdit == InitAll({1}, 1, {resetForm}, PaymentRows) /\ route = "payments"

NextEdit ==
  \/ openEdit
  \/ \E text \in Texts, ref \in {NoRef, "ab"}, term \in Terms :
       confirmEdit(text, ref, term)

SpecEdit == InitEdit /\ [][NextEdit]_vars

\* two queued payments, drained by one syncAll call at a time
InitFifo == InitWith({1}, 1)

NextFifo ==
  \/ Engine
  \/ \E x \in PaymentIds, in \in PlainInputs : addOfflinePayment(x, in)

SpecFifo == InitFifo /\ [][NextFifo]_vars

\* the admissions page queueing while the student roster is read through
\* the cache, one syncAll call at a time
InitRoster == InitWith({1}, 1) /\ route = "admissions"

NextRoster ==
  \/ \E x \in AdmissionIds : addOfflineAdmission(x)
  \/ \E x \in StudentIds : addOfflineStudent(x)
  \/ addOfflineTail
  \/ handleOnline
  \/ handleOffline
  \/ \E d \in Drains : Drain(d)
  \/ \E forceRefresh \in BOOLEAN : getStudents(forceRefresh)
  \/ FetchDone("students_all")

SpecRoster == InitRoster /\ [][NextRoster]_vars

\* ----------------------------------------------------------------- claims
\* C1 (status totality): when a drain has left its loops, normally or by an
\* exception, every item it listed as Pending that is still in the queue is
\* Synced or Failed.
C1_StatusTotality ==
  \A d \in Drains :
    dpc[d] \in {"fin", "throw"} =>
      \A x \in listed[d] : syncStatus[x] \in {"synced", "failed", "removed"}

\* C2 (idempotent sync): whatever the drain triggers, no queue item has more
\* than one remote row created from it.
C2_SubmittedAtMostOnce == \A x \in Items : submits[x] <= 1

\* C3 (single-flight): at most one syncAll call is in progress at any time.
C3_SingleFlight == Cardinality(ActiveDrains) <= 1

\* C4 (one drain per reconnect): a step that takes navigator.onLine from
\* false to true leaves exactly one drain in progress.
C4_OnlineStartsOneDrain ==
  [][(~navigatorOnLine /\ navigatorOnLine') =>
       Cardinality({d \in Drains : dpc'[d] # "idle"}) = 1]_vars

\* C5 (drain at session start): right after a session start with
\* connectivity and Pending items, a drain is in progress.
C5_SessionStartDrains ==
  (last = "session" /\ navigatorOnLine /\ getPendingSyncCount > 0)
    => ActiveDrains # {}

\* C6 (terminal statuses): a Synced row stays Synced and a Failed row stays
\* Failed until it is deleted, and no remote row is created from an item
\* that is Synced.
C6_TerminalStatuses ==
  [][\A x \in Items :
       /\ syncStatus[x] = "synced" => syncStatus'[x] \in {"synced", "removed"}
       /\ syncStatus[x] = "failed" => syncStatus'[x] \in {"failed", "removed"}
       /\ submits'[x] > submits[x] => syncStatus[x] # "synced"]_vars

\* C8 (removal): a row is deleted from the queue only while its stored
\* status is Pending or Failed, and the deleting step leaves the remote
\* tables alone.
C8_RemoveOnlyUnsynced ==
  [][\A x \in Items :
       (Stored(x) /\ syncStatus'[x] = "removed") =>
          /\ syncStatus[x] \in {"pending", "failed"}
          /\ UNCHANGED remoteVars]_vars

\* C7 (no automatic retry): getPendingItems hands a drain only rows that
\* are Pending, a drain creates remote rows only from the rows it was
\* handed, and no step turns a Failed row back into Pending.
C7_FailedNotRetried ==
  [][/\ \A d \in Drains :
          (dpc[d] = "list" /\ dpc'[d] \in {"submit", "fin"}) =>
             \A x \in listed'[d] : syncStatus[x] = "pending"
     /\ \A x \in Items :
          submits'[x] > submits[x] =>
             \E d \in Drains : dpc[d] = "submit" /\ x \in listed[d]
     /\ \A x \in Items :
          syncStatus[x] = "failed" => syncStatus'[x] # "pending"]_vars

\* a drain has just listed Pending rows while another row is Failed, and
\* the Failed row is not among them
C7_Witness ==
  /\ last = "list"
  /\ \E x \in Items, d \in Drains :
       /\ syncStatus[x] = "failed"
       /\ dpc[d] = "submit"
       /\ listed[d] # {}
       /\ x \notin listed[d]

\* C9 (reference uniqueness): no two remote payments carry references that
\* are equal ignoring case.
C9_UniqueReferences ==
  \A r1 \in remoteRefs, r2 \in remoteRefs : Lower(r1) = Lower(r2) => r1 = r2

\* a step writes a remote payment for term t
WritesTerm(t) ==
  \/ paid'[t] # paid[t]
  \/ \E x \in PaymentIds : submits'[x] > submits[x] /\ payload[x].term = t

\* C10 (term sequence): a payment for term t is written to the remote table
\* only when every term from the admission term up to t - 1 is fully paid.
C10_TermSequence ==
  [][\A t \in Terms :
       WritesTerm(t) =>
         \A u \in Terms :
           (StudentAdmissionOrder <= u /\ u < t) => paid[u] >= Fee]_vars
\* C11 (offline methods): a payment row is added to the queue only while
\* navigator.onLine is false and only from a form whose method is cash; a
\* form with another method submitted offline adds nothing.
C11_OfflineCashOnly ==
  [][\A x \in PaymentIds :
       (syncStatus[x] = "none" /\ syncStatus'[x] # "none") =>
          (~navigatorOnLine /\ formData.method = "cash")]_vars

\* a mobile-money or bank form with a valid amount and a reference was
\* submitted offline and refused, the queue still empty
C11_Witness ==
  /\ toast = "require an internet connection"
  /\ ~navigatorOnLine
  /\ formData.method \in {"mpesa", "bank"}
  /\ \A x \in Items : syncStatus[x] = "none"

\* the number 1850
Value1850 == [nan |-> FALSE, neg |-> FALSE, int |-> Plain1850, frac |-> <<>>,
              inf |-> FALSE]

\* a step enqueues a payment or writes one to the remote table
RecordsPayment ==
  \/ \E x \in PaymentIds : syncStatus[x] = "none" /\ syncStatus'[x] # "none"
  \/ directs' > directs

\* C12 (amount normalisation): "KSh 1,850.00" and "1850" both parse to
\* 1850, "-5" and "abc" are refused, and a payment is enqueued or written
\* only when the parsed amount is a finite number greater than 0.
C12_AmountNormalization ==
  [][/\ numericAmount(KSh1850) = Value1850
     /\ numericAmount(Plain1850) = Value1850
     /\ InvalidAmount(numericAmount(MinusFive))
     /\ InvalidAmount(numericAmount(Abc))
     /\ RecordsPayment =>
          LET v == numericAmount(formData.amount)
          IN ~v.nan /\ ~v.inf /\ ~NotPositive(v)]_vars
\* a step of setCache, with the clock where it was
SetCacheStep ==
  /\ call'.op = "setCache"
  /\ <<call, localStorage>>' # <<call, localStorage>>
  /\ now' = now

\* C13 (cache round trip): right after setCache(key, v, options) with a ttl
\* other than zero, getCache(key) returns v.
C13_CacheRoundTrip ==
  [][(SetCacheStep /\ call'.ttl # <<0>>) =>
       getCacheResult(localStorage', call'.key, now') = call'.data]_vars

\* a step of getCache
GetCacheStep ==
  /\ call'.op = "getCache"
  /\ <<call, localStorage>>' # <<call, localStorage>>

\* C14 (TTL expiry): getCache returns the data of an entry only when its age
\* is at most its ttl; on an entry older than its ttl it returns null and
\* removes that entry; every other entry is left as it was.
C14_TtlExpiry ==
  [][GetCacheStep =>
       LET k == call'.key
           Age == now - localStorage[k].timestamp
       IN /\ call'.result # Null =>
               /\ k \in DOMAIN localStorage
               /\ Age <= localStorage[k].ttl
               /\ call'.result = localStorage[k].data
          /\ (k \in DOMAIN localStorage /\ Age > localStorage[k].ttl) =>
               /\ call'.result = Null
               /\ k \notin DOMAIN localStorage'
          /\ \A j \in (DOMAIN localStorage) \ {k} :
               j \in DOMAIN localStorage' /\ localStorage'[j] = localStorage[j]
          /\ DOMAIN localStorage' \subseteq DOMAIN localStorage]_vars

\* a getCache has just evicted an expired entry and returned null while
\* another entry is still stored
C14_Witness ==
  /\ call.op = "getCache"
  /\ call.removed = 1
  /\ call.result = Null
  /\ call.key \notin DOMAIN localStorage
  /\ DOMAIN localStorage # {}

\* C15 (essential preservation): clearNonEssentialCaches leaves every
\* essential entry stored and readable with the value it had and removes
\* every other entry; only the roster and catalog keys are ever essential.
C15_EssentialPreserved ==
  [][/\ call'.op = "clearNonEssentialCaches" /\ call' # call =>
          \A k \in DOMAIN localStorage :
            IF localStorage[k].essential
              THEN /\ k \in DOMAIN localStorage'
                   /\ localStorage'[k] = localStorage[k]
                   /\ getCacheResult(localStorage', k, now')
                        = getCacheResult(localStorage, k, now)
              ELSE /\ k \notin DOMAIN localStorage'
                   /\ getCacheResult(localStorage', k, now') = Null
     /\ \A k \in DOMAIN localStorage' :
          localStorage'[k].essential => k \in ESSENTIAL_CACHES]_vars

\* clearNonEssentialCaches has just removed an entry and the roster, set as
\* essential, is still readable
C15_Witness ==
  /\ call.op = "clearNonEssentialCaches"
  /\ call.removed > 0
  /\ "students_all" \in DOMAIN localStorage
  /\ localStorage["students_all"].essential
  /\ getCacheResult(localStorage, "students_all", now) = "listA"

\* a read-through call that returned or threw without fetching
ReadStep ==
  /\ call'.op = "get"
  /\ svc' = svc
  /\ <<call, localStorage>>' # <<call, localStorage>>

C18_FailureIsolation ==
  [][\A d \in Drains :
       (/\ dpc[d] = "mark" /\ dpc'[d] # "mark"
        /\ res[d] = "error"
        /\ Stored(Head(todo[d]))) =>
          /\ syncStatus'[Head(todo[d])] = "failed"
          /\ errorMessage'[Head(todo[d])]
          /\ dpc'[d] # "throw"
          /\ todo'[d] = Tail(todo[d])]_vars

\* C19 (remote id and error message): a row has a syncedId only while it is
\* Synced and an errorMessage only while it is Failed.
C19_FlagsMatchStatus ==
  \A x \in Items :
    /\ syncedId[x] => syncStatus[x] = "synced"
    /\ errorMessage[x] => syncStatus[x] = "failed"

\* C20 (FIFO per kind): a drain submits one item per step, always the head
\* of what is left of its list; every listed item of the same kind that was
\* added earlier has been processed by then and every one added later is
\* still waiting, and the status update follows before the next submission.
C20_FifoPerKind ==
  [][\A x \in Items :
       submits'[x] > submits[x] =>
         /\ \A y \in Items \ {x} : submits'[y] = submits[y]
         /\ \E d \in Drains :
              /\ dpc[d] = "submit" /\ dpc'[d] = "mark"
              /\ x = Head(todo[d])
              /\ \A y \in listed[d] \ {x} :
                   Kind(y) = Kind(x) =>
                     IF Pk(y) < Pk(x) THEN y \notin Range(todo[d])
                                      ELSE y \in Range(Tail(todo[d]))]_vars

\* a drain that listed both payments has submitted the one added first and
\* then the one added second
C20_Witness ==
  \E d \in Drains :
    /\ listed[d] = {"p1", "p2"}
    /\ todo[d] = <<"p2">>
    /\ dpc[d] = "mark"
    /\ submits["p1"] = 1
    /\ submits["p2"] = 1

\* C21 (kind order): when a drain processes an item, every listed item of an
\* earlier kind (admissions before students before payments) has been
\* processed by then and every listed item of a later kind is still waiting.
C21_KindOrder ==
  [][\A d \in Drains :
       (dpc[d] = "submit" /\ dpc'[d] = "mark") =>
         LET x == Head(todo[d])
             Rank(y) == CASE Kind(y) = "admission" -> 1
                          [] Kind(y) = "student" -> 2
                          [] Kind(y) = "payment" -> 3
         IN \A y \in listed[d] :
              /\ Rank(y) < Rank(x) => y \notin Range(todo[d])
              /\ Rank(y) > Rank(x) => y \in Range(Tail(todo[d]))]_vars

\* a drain that listed an admission, a student and a payment has processed
\* the first two and submitted the payment
C21_Witness ==
  \E d \in Drains :
    /\ listed[d] = {"a1", "s1", "p1"}
    /\ todo[d] = <<"p1">>
    /\ dpc[d] = "mark"
    /\ syncStatus["a1"] \in {"synced", "failed"}
    /\ syncStatus["s1"] \in {"synced", "failed"}

C23_CountPublished ==
  [][\A d \in Drains :
       (dpc[d] \in {"fin", "throw"} /\ dpc'[d] = "idle" /\ dlive[d]) =>
         pendingCount'[downer[d]] = getPendingSyncCount']_vars

\* C24 (cache invalidation after a sync): when a drain has created the remote
\* student of an admission or student item and marks the item Synced, the
\* cached student roster is invalidated: no entry is left under its key.
C24_RosterInvalidated ==
  [][\A x \in AdmissionIds \cup StudentIds :
       (syncStatus[x] = "pending" /\ syncStatus'[x] = "synced") =>
         "students_all" \notin DOMAIN localStorage']_vars

C26_MissingFeeRejects ==
  [][(/\ isOnline
      /\ formData.term > StudentAdmissionOrder
      /\ \E t \in Terms :
           /\ StudentAdmissionOrder <= t /\ t < formData.term
           /\ gradeTerms[t] = <<>> /\ grades = <<>>) =>
        directs' = directs]_vars

\* the form for term 2 was submitted online with no fee configured for
\* term 1 and nothing was recorded
C26_Witness ==
  /\ navigatorOnLine
  /\ formData.term = 2
  /\ gradeTerms[1] = <<>> /\ grades = <<>>
  /\ toast = "not recorded"
  /\ directs = 0

\* C27 (nothing is synced offline): a drain starts only with the
\* connectivity signal true, and while the signal is false no drain hands a
\* queue item to the remote backend.
C27_NoSyncOffline ==
  [][\A d \in Drains :
       /\ (dpc[d] = "idle" /\ dpc'[d] # "idle") => navigatorOnLine'
       /\ (dpc[d] = "submit" /\ dpc'[d] = "mark") => navigatorOnLine]_vars

\* C28 (a drain always ends): every syncAll call that has started reaches
\* its end, also through an exception of the listing or of a status update,
\* and at its end the isSyncing flag of its hook instance is false.
C28_DrainFinishes ==
  /\ \A d \in Drains : (dpc[d] # "idle") ~> (dpc[d] = "idle")
  /\ [][\A d \in Drains :
          (dpc[d] # "idle" /\ dpc'[d] = "idle" /\ dlive[d]) =>
            ~isSyncing'[downer[d]]]_vars

\* the only drain has ended by the exception of a status update, after the
\* remote insert of its item, and no flag is left set
C28_Witness ==
  /\ ActiveDrains = {}
  /\ submits["p1"] = 1
  /\ syncStatus["p1"] = "pending"
  /\ \A h \in Hooks : ~isSyncing[h]

\* C29 (Synced iff created remotely): when no drain is running, an admission
\* or student row of the queue is Synced exactly when a remote student
\* record was created from it.
C29_SyncedIffCreated ==
  ActiveDrains = {} =>
    \A x \in AdmissionIds \cup StudentIds :
      Stored(x) => (syncStatus[x] = "synced" <=> submits[x] > 0)

\* C30 (a refresh keeps the cache): a manual refresh that fetches nothing
\* and ends in an error leaves every essential entry that was readable
\* before it in the cache.
C30_RefreshKeepsCache ==
  [][(call'.op = "refresh" /\ call'.threw) =>
       \A k \in ReferenceKeys :
         (k \in DOMAIN localStorage /\ ~isExpired(localStorage[k], now)) =>
           k \in DOMAIN localStorage']_vars
====
